---- MODULE Spec2Model ----
(***************************************************************************)
(* Model of screen::Dashboard (src/src/screen/dashboard.rs): the pane      *)
(* layout (iced pane_grid::State<Pane>), the focus, the debounced layout   *)
(* save driven by the 1-second Tick, and the shutdown task started by      *)
(* CloseRequested.                                                         *)
(*                                                                         *)
(* Option<T> values are sequences of length at most one: None is <<>> and  *)
(* Some(x) is <<x>>.  Instants are whole seconds since start-up.           *)
(***************************************************************************)
EXTENDS Integers, Sequences, FiniteSets, TLC

\* ---- bounds of the model ------------------------------------------------
MaxId == 5            \* the grid stops handing out ids (panes and splits) above this
MaxPanes == 2         \* no split is made that would leave more panes than this
MaxClock == 6         \* the clock stops after this many seconds
MaxTasks == 1         \* shutdown tasks (CloseRequested events) in a run

\* ---- program constants ----------------------------------------------------
SAVE_AFTER == 3
TickEvery == 1

None == <<>>
Some(x) == <<x>>

Kinds == {"#x", "#y"}                 \* data::Buffer values the side menu can open
Empty == "Empty"                      \* Buffer::Empty
Axes == {"Horizontal", "Vertical"}
DefaultRatio == "1/2"                 \* ratio given to a fresh split
Ratios == {"1/2", "7/10"}
Regions == {"Center", "Top", "Bottom", "Left", "Right"}
NewBuffer == TRUE                     \* config.new_buffer: user list shown
DefaultSettings == TRUE               \* buffer::Settings::default()

VARIABLES
    panes,          \* pane_grid::State<Pane>: [panes, layout, last_id, maximized]
    focus,          \* Option<pane_grid::Pane>
    last_changed,   \* Option<Instant>
    tracked,        \* resources handed to history::Manager::track so far
    clock,          \* Instant::now()
    tick,           \* Option<Instant>: Tick message emitted by the timer, not yet handled
    saves,          \* dashboard.save() futures dispatched by Tick and not yet finished
    tasks,          \* shutdown tasks started by CloseRequested
    closed,         \* window::close() has been emitted
    last            \* the message handled by the latest step and what it returned

vars == <<panes, focus, last_changed, tracked, clock, tick, saves, tasks, closed, last>>

\* ---- pane_grid::Node -------------------------------------------------------
PaneNode(p) == [kind |-> "Pane", id |-> p]

SplitNode(s, axis, ratio, a, b) ==
    [kind |-> "Split", id |-> s, axis |-> axis, ratio |-> ratio, a |-> a, b |-> b]

IsPane(n, p) == n.kind = "Pane" /\ n.id = p

RECURSIVE Leaves(_)
Leaves(n) == IF n.kind = "Pane" THEN <<n.id>> ELSE Leaves(n.a) \o Leaves(n.b)

RECURSIVE Splits(_)
Splits(n) == IF n.kind = "Pane" THEN {} ELSE {n.id} \cup Splits(n.a) \cup Splits(n.b)

first_pane(n) == Leaves(n)[1]

Range(s) == {s[i] : i \in 1..Len(s)}

\* Node::remove: the sibling subtree takes the place of the parent split.
RECURSIVE node_remove(_, _)
node_remove(n, pane) ==
    IF n.kind = "Pane" THEN [node |-> n, ret |-> None]
    ELSE IF IsPane(n.a, pane) THEN [node |-> n.b, ret |-> Some(first_pane(n.b))]
    ELSE IF IsPane(n.b, pane) THEN [node |-> n.a, ret |-> Some(first_pane(n.a))]
    ELSE LET ra == node_remove(n.a, pane) IN
         IF ra.ret # None
         THEN [node |-> [n EXCEPT !.a = ra.node], ret |-> ra.ret]
         ELSE LET rb == node_remove(n.b, pane) IN
              [node |-> [n EXCEPT !.b = rb.node], ret |-> rb.ret]

\* Node::find followed by Node::split: the first leaf holding `pane` becomes
\* child a of a new split whose child b is the new pane.
RECURSIVE node_split(_, _, _, _, _)
node_split(n, pane, new_split, axis, new_pane) ==
    IF n.kind = "Pane"
    THEN IF n.id = pane
         THEN SplitNode(new_split, axis, DefaultRatio, n, PaneNode(new_pane))
         ELSE n
    ELSE IF pane \in Range(Leaves(n.a))
         THEN [n EXCEPT !.a = node_split(n.a, pane, new_split, axis, new_pane)]
         ELSE [n EXCEPT !.b = node_split(n.b, pane, new_split, axis, new_pane)]

\* Node::update with the closure of State::swap: the two ids trade leaves.
RECURSIVE node_swap(_, _, _)
node_swap(n, a, b) ==
    IF n.kind = "Pane"
    THEN IF n.id = a THEN PaneNode(b)
         ELSE IF n.id = b THEN PaneNode(a)
         ELSE n
    ELSE [n EXCEPT !.a = node_swap(n.a, a, b), !.b = node_swap(n.b, a, b)]

\* Node::resize: the first split with this id gets the ratio.
RECURSIVE node_resize(_, _, _)
node_resize(n, s, ratio) ==
    IF n.kind = "Pane" THEN n
    ELSE IF n.id = s THEN [n EXCEPT !.ratio = ratio]
    ELSE IF s \in Splits(n.a) THEN [n EXCEPT !.a = node_resize(n.a, s, ratio)]
    ELSE [n EXCEPT !.b = node_resize(n.b, s, ratio)]

\* ---- crate::screen::dashboard::pane::Pane ---------------------------------
Pane_new(buffer, settings) == [buffer |-> buffer, settings |-> settings]

\* ---- pane_grid::State<Pane> ------------------------------------------------
Has(st, p) == p \in DOMAIN st.panes

MapPut(m, k, v) == [x \in DOMAIN m \cup {k} |-> IF x = k THEN v ELSE m[x]]
MapDel(m, k) == [x \in DOMAIN m \ {k} |-> m[x]]

\* State::new: one pane with id 0; Internal::from_configuration leaves last_id at 1.
State_new(first) ==
    [panes |-> (0 :> first), layout |-> PaneNode(0), last_id |-> 1, maximized |-> None]

\* State::close -> [st, ret]; ret is Some(<<removed state, sibling>>).
close(st, pane) ==
    LET st1 == IF st.maximized = Some(pane) THEN [st EXCEPT !.maximized = None] ELSE st
        r == node_remove(st1.layout, pane)
    IN  IF r.ret # None
        THEN IF Has(st1, pane)
             THEN [st |-> [st1 EXCEPT !.layout = r.node, !.panes = MapDel(st1.panes, pane)],
                   ret |-> Some(<<st1.panes[pane], r.ret[1]>>)]
             ELSE [st |-> [st1 EXCEPT !.layout = r.node], ret |-> None]
        ELSE [st |-> st1, ret |-> None]

\* State::split -> [st, ret]; ret is Some(new pane id).  The new pane takes
\* last_id + 1 and the new split last_id + 2.
split(st, axis, pane, state) ==
    IF pane \notin Range(Leaves(st.layout))
    THEN [st |-> st, ret |-> None]
    ELSE LET new_pane == st.last_id + 1
             new_split == st.last_id + 2
         IN  [st |-> [panes |-> MapPut(st.panes, new_pane, state),
                      layout |-> node_split(st.layout, pane, new_split, axis, new_pane),
                      last_id |-> new_split,
                      maximized |-> None],
              ret |-> Some(new_pane)]

\* State::swap
swap(st, a, b) == [st EXCEPT !.layout = node_swap(st.layout, a, b)]

\* State::resize
resize(st, s, ratio) == [st EXCEPT !.layout = node_resize(st.layout, s, ratio)]

\* State::split_and_swap: close the dragged pane, split the target with its
\* state, and swap the two when the drop was on the leading edge.
split_and_swap(st, axis, target, pane, swapped) ==
    LET c == close(st, pane) IN
    IF c.ret = None THEN c.st
    ELSE LET s == split(c.st, axis, target, c.ret[1][1]) IN
         IF s.ret = None THEN s.st
         ELSE IF swapped THEN swap(s.st, target, s.ret[1]) ELSE s.st

\* State::split_with
split_with(st, target, pane, region) ==
    CASE region = "Center" -> swap(st, pane, target)
      [] region = "Top"    -> split_and_swap(st, "Horizontal", target, pane, TRUE)
      [] region = "Bottom" -> split_and_swap(st, "Horizontal", target, pane, FALSE)
      [] region = "Left"   -> split_and_swap(st, "Vertical", target, pane, TRUE)
      [] region = "Right"  -> split_and_swap(st, "Vertical", target, pane, FALSE)

\* State::maximize / State::restore
maximize(st, pane) == [st EXCEPT !.maximized = Some(pane)]
panes_restore(st) == [st EXCEPT !.maximized = None]

\* Internal::from_configuration -> [panes, layout, last_id]: ids are handed out
\* depth first, child a before child b, the split after its children.
RECURSIVE from_configuration(_, _)
from_configuration(content, next_id) ==
    IF content.kind = "Pane"
    THEN [panes |-> (next_id :> content.state), layout |-> PaneNode(next_id),
          last_id |-> next_id + 1]
    ELSE LET a == from_configuration(content.a, next_id)
             b == from_configuration(content.b, a.last_id)
         IN  [panes |-> [x \in DOMAIN a.panes \cup DOMAIN b.panes |->
                            IF x \in DOMAIN a.panes THEN a.panes[x] ELSE b.panes[x]],
              layout |-> SplitNode(b.last_id, content.axis, content.ratio, a.layout, b.layout),
              last_id |-> b.last_id + 1]

\* State::with_configuration
with_configuration(config) ==
    LET i == from_configuration(config, 0) IN
    [panes |-> i.panes, layout |-> i.layout, last_id |-> i.last_id, maximized |-> None]

\* ---- persisted snapshot (data::Dashboard, data::Pane) -----------------------
DataEmpty == [kind |-> "Empty"]
DataBuffer(buffer, settings) == [kind |-> "Buffer", buffer |-> buffer, settings |-> settings]
DataSplit(axis, ratio, a, b) == [kind |-> "Split", axis |-> axis, ratio |-> ratio, a |-> a, b |-> b]

\* Buffer::data: the data::Buffer a pane shows, None for Buffer::Empty.
data(buffer) == IF buffer = Empty THEN None ELSE Some(buffer)

\* Pane::resource
resource(pane) == data(pane.buffer)

\* fn configuration in impl From<data::Dashboard> for Dashboard
RECURSIVE configuration(_)
\* configuration gone wrong: the children of a split trade places.
configuration_flipped(pane) ==
    CASE pane.kind = "Split" ->
            [kind |-> "Split", axis |-> pane.axis, ratio |-> pane.ratio,
             a |-> configuration(pane.b), b |-> configuration(pane.a)]
      [] pane.kind = "Buffer" ->
            [kind |-> "Pane", state |-> Pane_new(pane.buffer, pane.settings)]
      [] pane.kind = "Empty" ->
            [kind |-> "Pane", state |-> Pane_new(Empty, DefaultSettings)]

configuration(pane) ==
    CASE pane.kind = "Split" ->
            [kind |-> "Split", axis |-> pane.axis, ratio |-> pane.ratio,
             a |-> configuration(pane.a), b |-> configuration(pane.b)]
      [] pane.kind = "Buffer" ->
            [kind |-> "Pane", state |-> Pane_new(pane.buffer, pane.settings)]
      [] pane.kind = "Empty" ->
            [kind |-> "Pane", state |-> Pane_new(Empty, DefaultSettings)]

\* ---- Dashboard ---------------------------------------------------------------
\* track gone wrong: only the first pane's resource is handed over.
track_first(st, history) ==
    LET first == {p \in DOMAIN st.panes : \A q \in DOMAIN st.panes : p <= q}
    IN  history \cup {resource(st.panes[p])[1] : p \in {q \in first : resource(st.panes[q]) # None}}

\* Dashboard::track: the resources of all panes go to history::Manager::track.
track(st, history) == history \cup {resource(st.panes[p])[1] : p \in {q \in DOMAIN st.panes : resource(st.panes[q]) # None}}

\* Dashboard::empty
empty == [panes |-> State_new(Pane_new(Empty, NewBuffer)), focus |-> None, last_changed |-> None]

\* impl From<data::Dashboard> for Dashboard
from_data(dashboard) ==
    [panes |-> with_configuration(configuration(dashboard)), focus |-> None, last_changed |-> None]

\* impl From<Pane> for data::Pane: a pane without a real buffer becomes Empty.
data_Pane_from(pane) ==
    IF data(pane.buffer) = None THEN DataEmpty
    ELSE DataBuffer(data(pane.buffer)[1], pane.settings)

\* fn from_layout in impl From<&Dashboard> for data::Dashboard
RECURSIVE from_layout(_, _)
from_layout(st, node) ==
    IF node.kind = "Split"
    THEN DataSplit(node.axis, node.ratio, from_layout(st, node.a), from_layout(st, node.b))
    ELSE IF Has(st, node.id) THEN data_Pane_from(st.panes[node.id]) ELSE DataEmpty

\* impl From<&Dashboard> for data::Dashboard
to_data(d) == from_layout(d.panes, d.panes.layout)

\* Layouts a previous run may have saved: every layout of one or two panes,
\* and one of three with a nested split.
SnapshotLeaves == {DataEmpty} \cup {DataBuffer(k, NewBuffer) : k \in Kinds}
Snapshots ==
    SnapshotLeaves
    \cup {DataSplit("Vertical", "7/10", a, b) : a \in SnapshotLeaves, b \in SnapshotLeaves}
    \cup {DataSplit("Horizontal", "1/2",
                     DataSplit("Vertical", "7/10", DataBuffer("#x", NewBuffer), DataEmpty),
                     DataBuffer("#y", NewBuffer))}

\* The message or task step the latest step handled and the Command it returned.
Ev(op, cmd) == [op |-> op, cmd |-> cmd]

Start(d) ==
    /\ panes = d.panes
    /\ focus = d.focus
    /\ last_changed = d.last_changed
    /\ tracked = track(d.panes, {})
    /\ clock = 0
    /\ tick = None
    /\ saves = 0
    /\ tasks = <<>>
    /\ closed = FALSE
    /\ last = Ev("start", {})

\* Dashboard::empty or Dashboard::restore
Init == \/ Start(empty)
        \/ \E s \in Snapshots : Start(from_data(s))

\* self as a record, with the Command built so far
Self == [panes |-> panes, focus |-> focus, last_changed |-> last_changed, cmd |-> {}]

\* Dashboard::focus_pane
focus_pane(d, pane) ==
    IF d.focus # Some(pane)
    THEN [d EXCEPT !.focus = Some(pane),
                   !.cmd = IF Has(d.panes, pane) THEN {<<"focus", pane>>} ELSE {}]
    ELSE d

\* Dashboard::get_focused_mut
get_focused_mut(d) == IF d.focus # None /\ Has(d.panes, d.focus[1]) THEN d.focus ELSE None

Dirty(d, now) == [d EXCEPT !.last_changed = Some(now)]

\* The caller re-tracks after Dashboard::update.
Retrack(d) == track(d.panes, tracked)

\* A message handled by Dashboard::update, followed by the caller's track().
\* Ids are handed out by a counter: the model stops splitting at MaxId, and
\* stops adding panes at MaxPanes.
Update(op, d) ==
    /\ ~closed
    /\ d.panes.last_id = panes.last_id \/ d.panes.last_id <= MaxId
    /\ \/ Cardinality(DOMAIN d.panes.panes) <= Cardinality(DOMAIN panes.panes)
       \/ Cardinality(DOMAIN d.panes.panes) <= MaxPanes
    /\ panes' = d.panes
    /\ focus' = d.focus
    /\ last_changed' = d.last_changed
    /\ tracked' = Retrack(d)
    /\ last' = Ev(op, d.cmd)
    /\ UNCHANGED <<clock, tick, saves, tasks, closed>>

\* ---- Message::Pane ------------------------------------------------------------
on_PaneClicked(d, pane) == focus_pane(d, pane)

on_PaneResized(d, now, s, ratio) == Dirty([d EXCEPT !.panes = resize(d.panes, s, ratio)], now)

on_PaneDragged(d, now, pane, target, region) ==
    Dirty([d EXCEPT !.panes = split_with(d.panes, target, pane, region)], now)

\* ClosePane gone wrong: focus is dropped when the pane could not be closed.
on_ClosePane_drops_focus(d, now) ==
    IF d.focus = None THEN d
    ELSE LET pane == d.focus[1]
             c == close(d.panes, pane)
             d1 == Dirty([d EXCEPT !.panes = c.st], now)
         IN  IF c.ret # None THEN focus_pane(d1, c.ret[1][2])
             ELSE IF Has(d1.panes, pane)
                  THEN [d1 EXCEPT !.panes.panes[pane].buffer = Empty, !.focus = None]
                  ELSE [d1 EXCEPT !.focus = None]

on_ClosePane(d, now) ==
    IF d.focus = None THEN d
    ELSE LET pane == d.focus[1]
             c == close(d.panes, pane)
             d1 == Dirty([d EXCEPT !.panes = c.st], now)
         IN  IF c.ret # None THEN focus_pane(d1, c.ret[1][2])
             ELSE IF Has(d1.panes, pane)
                  THEN [d1 EXCEPT !.panes.panes[pane].buffer = Empty]
                  ELSE d1

\* SplitPane gone wrong: the focus stays on the pane that was split.
on_SplitPane_keeps_focus(d, now, axis) ==
    IF d.focus = None THEN d
    ELSE Dirty([d EXCEPT !.panes = split(d.panes, axis, d.focus[1], Pane_new(Empty, NewBuffer)).st], now)

on_SplitPane(d, now, axis) ==
    IF d.focus = None THEN d
    ELSE LET r == split(d.panes, axis, d.focus[1], Pane_new(Empty, NewBuffer))
             d1 == Dirty([d EXCEPT !.panes = r.st], now)
         IN  IF r.ret # None THEN focus_pane(d1, r.ret[1]) ELSE d1

on_ToggleShowUserList(d, now) ==
    IF get_focused_mut(d) = None THEN d
    ELSE Dirty([d EXCEPT !.panes.panes[d.focus[1]].settings = ~@], now)

on_MaximizePane(d) ==
    IF d.panes.maximized # None THEN [d EXCEPT !.panes = panes_restore(d.panes)]
    ELSE IF d.focus # None THEN [d EXCEPT !.panes = maximize(d.panes, d.focus[1])]
    ELSE d

\* ---- Message::SideMenu ----------------------------------------------------------
\* Open gone wrong: no look for a pane that already shows the kind.
on_Open_always_new(d, now, kind) ==
    LET empties == {id \in DOMAIN d.panes.panes : d.panes.panes[id].buffer = Empty}
        to_split == IF d.focus # None THEN {d.focus[1]} ELSE DOMAIN d.panes.panes
    IN  IF Cardinality(DOMAIN d.panes.panes) = 1 /\ empties # {}
        THEN {focus_pane(Dirty([d EXCEPT !.panes.panes[id] = Pane_new(kind, NewBuffer)], now), id)
                : id \in empties}
        ELSE IF to_split = {} THEN {d}
        ELSE {LET r == split(d.panes, "Horizontal", p, Pane_new(kind, NewBuffer))
                  d1 == Dirty([d EXCEPT !.panes = r.st], now)
              IN  IF r.ret # None THEN focus_pane(d1, r.ret[1]) ELSE d1
                : p \in to_split}

\* side_menu::Event::Open: the outcomes the HashMap's iteration order allows.
on_Open(d, now, kind) ==
    LET showing == {id \in DOMAIN d.panes.panes : data(d.panes.panes[id].buffer) = Some(kind)}
        empties == {id \in DOMAIN d.panes.panes : d.panes.panes[id].buffer = Empty}
        to_split == IF d.focus # None THEN {d.focus[1]} ELSE DOMAIN d.panes.panes
    IN  IF showing # {}
        THEN {[d EXCEPT !.focus = Some(id)] : id \in showing}
        ELSE IF Cardinality(DOMAIN d.panes.panes) = 1 /\ empties # {}
        THEN {focus_pane(Dirty([d EXCEPT !.panes.panes[id] = Pane_new(kind, NewBuffer)], now), id)
                : id \in empties}
        ELSE IF to_split = {} THEN {d}
        ELSE {LET r == split(d.panes, "Horizontal", p, Pane_new(kind, NewBuffer))
                  d1 == Dirty([d EXCEPT !.panes = r.st], now)
              IN  IF r.ret # None THEN focus_pane(d1, r.ret[1]) ELSE d1
                : p \in to_split}

\* Replace gone wrong: the marker is not set.
on_Replace_unmarked(d, now, kind, pane) ==
    IF Has(d.panes, pane)
    THEN focus_pane([d EXCEPT !.panes.panes[pane].buffer = kind], pane)
    ELSE d

on_Replace(d, now, kind, pane) ==
    IF Has(d.panes, pane)
    THEN focus_pane(Dirty([d EXCEPT !.panes.panes[pane].buffer = kind], now), pane)
    ELSE d

\* Close gone wrong: focus is left on the closed pane.
on_Close_keeps_focus(d, now, pane) ==
    Dirty([d EXCEPT !.panes = close(d.panes, pane).st], now)

on_Close(d, now, pane) ==
    LET d1 == Dirty([d EXCEPT !.panes = close(d.panes, pane).st], now)
    IN  IF d1.focus = Some(pane) THEN [d1 EXCEPT !.focus = None] ELSE d1

on_Swap(d, now, from, to) ==
    focus_pane(Dirty([d EXCEPT !.panes = swap(d.panes, from, to)], now), from)

\* ---- actions: one per message ------------------------------------------------------

\* Ids the pane grid widget reports in clicks and drags: the panes it draws.
GridIds == DOMAIN panes.panes \cap Range(Leaves(panes.layout))

\* Ids the side menu puts in its events: the panes it lists and the focus it
\* was given, which may be an id that has left the grid.
MenuIds == DOMAIN panes.panes \cup Range(focus)

PaneClicked == \E pane \in GridIds : Update("PaneClicked", on_PaneClicked(Self, pane))

PaneResized ==
    \E s \in Splits(panes.layout), ratio \in Ratios :
        Update("PaneResized", on_PaneResized(Self, clock, s, ratio))

PaneDragged ==
    \E pane \in GridIds, target \in GridIds, region \in Regions :
        /\ pane # target
        /\ Update("PaneDragged", on_PaneDragged(Self, clock, pane, target, region))

ClosePane == Update("ClosePane", on_ClosePane(Self, clock))

SplitPane ==
    \E axis \in Axes :
        Update("SplitPane", on_SplitPane(Self, clock, axis))

ToggleShowUserList == Update("ToggleShowUserList", on_ToggleShowUserList(Self, clock))

MaximizePane == Update("MaximizePane", on_MaximizePane(Self))

Open ==
    \E kind \in Kinds :
        \E d \in on_Open(Self, clock, kind) : Update("Open", d)

Replace ==
    \E kind \in Kinds, pane \in MenuIds :
        Update("Replace", on_Replace(Self, clock, kind, pane))

Close ==
    \E pane \in MenuIds : Update("Close", on_Close(Self, clock, pane))

Swap ==
    \E from \in MenuIds, to \in MenuIds :
        Update("Swap", on_Swap(Self, clock, from, to))

\* Event::Escape
Escape ==
    /\ ~closed
    /\ focus' = None
    /\ last' = Ev("Escape", {})
    /\ UNCHANGED <<panes, last_changed, tracked, clock, tick, saves, tasks, closed>>

\* ---- timer, Tick and the save it dispatches ----------------------------------------
\* iced::time::every(1 s): the next Tick(now) is emitted once the previous
\* one has been handled.
TimerFires ==
    /\ ~closed
    /\ tick = None
    /\ clock + TickEvery <= MaxClock
    /\ clock' = clock + TickEvery
    /\ tick' = Some(clock')
    /\ last' = Ev("TimerFires", {})
    /\ UNCHANGED <<panes, focus, last_changed, tracked, saves, tasks, closed>>

\* Instant::duration_since saturates at zero.
duration_since(now, earlier) == IF now >= earlier THEN now - earlier ELSE 0

\* Tick gone wrong: the save waits for more than SAVE_AFTER.
tick_saves_strict(lc, now) == lc # None /\ duration_since(now, lc[1]) > SAVE_AFTER

\* Message::Tick -> whether a save is dispatched
tick_saves(lc, now) == lc # None /\ duration_since(now, lc[1]) >= SAVE_AFTER

Tick ==
    /\ ~closed
    /\ tick # None
    /\ tick' = None
    /\ IF tick_saves(last_changed, tick[1])
       THEN /\ last_changed' = None
            /\ saves' = saves + 1
            /\ tasks' = [i \in DOMAIN tasks |-> [tasks[i] EXCEPT !.issued = @ + 1]]
            /\ last' = Ev("Tick", {<<"save">>, <<"snapshot", to_data(Self)>>, <<"history">>})
       ELSE /\ UNCHANGED <<last_changed, saves, tasks>>
            /\ last' = Ev("Tick", {<<"history">>})
    /\ UNCHANGED <<panes, focus, tracked, clock, closed>>

\* DashboardSaved gone wrong: the marker is cleared when the save reports back.
DashboardSaved_clears ==
    \E result \in {"Ok", "Err"} :
        /\ ~closed
        /\ saves > 0
        /\ saves' = saves - 1
        /\ last_changed' = None
        /\ last' = Ev("DashboardSaved", {})
        /\ UNCHANGED <<panes, focus, tracked, clock, tick, tasks, closed>>

\* Message::DashboardSaved(Ok | Err): the save future finished; only logged.
DashboardSaved ==
    \E result \in {"Ok", "Err"} :
        /\ ~closed
        /\ saves > 0
        /\ saves' = saves - 1
        /\ last' = Ev("DashboardSaved", {})
        /\ UNCHANGED <<panes, focus, last_changed, tracked, clock, tick, tasks, closed>>

\* ---- shutdown ------------------------------------------------------------------------
\* Event::CloseRequested: the task captures whether last_changed is set and
\* the data::Dashboard of this moment, and starts with history.close().
\* `issued` counts the saves dispatched, by anyone, since the request; `saved`
\* is the result of the task's own save.
CloseRequested ==
    /\ ~closed
    /\ Len(tasks) < MaxTasks
    /\ tasks' = Append(tasks, [pc |-> "history", dirty |-> last_changed # None, issued |-> 0,
                               saved |-> "none", dashboard |-> to_data(Self)])
    /\ last' = Ev("CloseRequested", {<<"task", Len(tasks) + 1>>})
    /\ UNCHANGED <<panes, focus, last_changed, tracked, clock, tick, saves, closed>>

\* history.await completes: the task saves if it captured a Dirty marker.
HistoryClosed ==
    \E i \in DOMAIN tasks :
        /\ ~closed
        /\ tasks[i].pc = "history"
        /\ tasks' = IF tasks[i].dirty
                    THEN [j \in DOMAIN tasks |->
                            [tasks[j] EXCEPT !.issued = @ + 1,
                                             !.pc = IF j = i THEN "save" ELSE @]]
                    ELSE [tasks EXCEPT ![i].pc = "done"]
        /\ last' = Ev("HistoryClosed",
                      IF tasks[i].dirty
                      THEN {<<"save">>, <<"snapshot", tasks[i].dashboard>>}
                      ELSE {})
        /\ UNCHANGED <<panes, focus, last_changed, tracked, clock, tick, saves, closed>>

\* TaskSaved gone wrong: a failed save ends the task without Message::Close.
TaskSaved_aborts ==
    \E i \in DOMAIN tasks, result \in {"Ok", "Err"} :
        /\ ~closed
        /\ tasks[i].pc = "save"
        /\ tasks' = [tasks EXCEPT ![i].pc = IF result = "Ok" THEN "done" ELSE "aborted",
                                  ![i].saved = result]
        /\ last' = Ev("TaskSaved", {})
        /\ UNCHANGED <<panes, focus, last_changed, tracked, clock, tick, saves, closed>>

\* dashboard.save().await completes in the task, Ok or Err: only logged.
TaskSaved ==
    \E i \in DOMAIN tasks, result \in {"Ok", "Err"} :
        /\ ~closed
        /\ tasks[i].pc = "save"
        /\ tasks' = [tasks EXCEPT ![i].pc = "done", ![i].saved = result]
        /\ last' = Ev("TaskSaved", {})
        /\ UNCHANGED <<panes, focus, last_changed, tracked, clock, tick, saves, closed>>

\* Message::Close, sent when the task finished: window::close().
WindowClose ==
    \E i \in DOMAIN tasks :
        /\ ~closed
        /\ tasks[i].pc = "done"
        /\ tasks' = [tasks EXCEPT ![i].pc = "closed"]
        /\ closed' = TRUE
        /\ last' = Ev("Close", {<<"window::close">>})
        /\ UNCHANGED <<panes, focus, last_changed, tracked, clock, tick, saves>>

Next ==
    \/ PaneClicked
    \/ PaneResized
    \/ PaneDragged
    \/ ClosePane
    \/ SplitPane
    \/ ToggleShowUserList
    \/ MaximizePane
    \/ Open
    \/ Replace
    \/ Close
    \/ Swap
    \/ Escape
    \/ TimerFires
    \/ Tick
    \/ DashboardSaved
    \/ CloseRequested
    \/ HistoryClosed
    \/ TaskSaved
    \/ WindowClose

Spec == Init /\ [][Next]_vars

\* The layout alone: pane and side-menu messages, with the clock standing still.
NextLayout ==
    \/ PaneClicked
    \/ PaneDragged
    \/ ClosePane
    \/ SplitPane
    \/ Open
    \/ Replace
    \/ Close
    \/ Swap
    \/ Escape

SpecLayout == Init /\ [][NextLayout]_vars

\* Pane settings: the user-list toggle with the messages that fill, replace
\* and empty panes, on a workspace that starts empty.
NextSettings ==
    \/ PaneClicked
    \/ ClosePane
    \/ ToggleShowUserList
    \/ Open
    \/ Replace

SpecSettings == Start(empty) /\ [][NextSettings]_vars

\* The debounced save alone: messages that change the layout, the timer
\* and the saves it dispatches, on an empty or a restored two-pane workspace.
NextDebounce ==
    \/ PaneClicked
    \/ PaneResized
    \/ ClosePane
    \/ ToggleShowUserList
    \/ Replace
    \/ TimerFires
    \/ Tick
    \/ DashboardSaved

SpecDebounce ==
    /\ \/ Start(empty)
       \/ Start(from_data(DataSplit("Vertical", "7/10", DataBuffer("#x", NewBuffer), DataEmpty)))
    /\ [][NextDebounce]_vars

\* The debounced save and the shutdown task, on a workspace that starts empty.
NextSave ==
    \/ PaneClicked
    \/ ClosePane
    \/ ToggleShowUserList
    \/ Replace
    \/ TimerFires
    \/ Tick
    \/ DashboardSaved
    \/ CloseRequested
    \/ HistoryClosed
    \/ TaskSaved
    \/ WindowClose

SpecSave == Start(empty) /\ [][NextSave]_vars

\* Shutdown with the futures of the task completing: history.close() and
\* dashboard.save() finish, and the runtime delivers Message::Close.
NextShutdown ==
    \/ Replace
    \/ TimerFires
    \/ Tick
    \/ DashboardSaved
    \/ CloseRequested
    \/ HistoryClosed
    \/ TaskSaved
    \/ WindowClose

SpecShutdown ==
    /\ Start(empty)
    /\ [][NextShutdown]_vars
    /\ WF_vars(HistoryClosed)
    /\ WF_vars(TaskSaved)
    /\ WF_vars(WindowClose)

\* ---- properties -----------------------------------------------------------------------
\* The latest step handled message `op` ...
Acted(op) == last'.op = op /\ vars' # vars

\* ... and left the dashboard as the handler outcome d says.
Handled(op, d) ==
    /\ Acted(op)
    /\ panes' = d.panes
    /\ focus' = d.focus
    /\ last_changed' = d.last_changed

LeafIds == Range(Leaves(panes.layout))
NumLeaves == Len(Leaves(panes.layout))
Showing(kind) == {id \in DOMAIN panes.panes : data(panes.panes[id].buffer) = Some(kind)}

\* C1: the tree always has a leaf, and a close request on the sole leaf
\* (ClosePane with it focused, or side-menu Close of it) keeps the leaf and
\* leaves it with the empty buffer.
C1_SoleLeafSurvivesEmptied ==
    [][/\ NumLeaves' >= 1
       /\ \A p \in DOMAIN panes.panes :
            (/\ Leaves(panes.layout) = <<p>>
             /\ \/ focus = Some(p) /\ Handled("ClosePane", on_ClosePane(Self, clock))
                \/ Handled("Close", on_Close(Self, clock, p)))
            => /\ Leaves(panes'.layout) = <<p>>
               /\ p \in DOMAIN panes'.panes
               /\ panes'.panes[p].buffer = Empty]_vars

\* Every outcome a pane or side-menu message can have in the current state.
Outcomes ==
    {on_PaneClicked(Self, p) : p \in GridIds}
    \cup {on_PaneResized(Self, clock, sp, r) : sp \in Splits(panes.layout), r \in Ratios}
    \cup {on_PaneDragged(Self, clock, p, t, r) : p \in GridIds, t \in GridIds, r \in Regions}
    \cup {on_ClosePane(Self, clock), on_ToggleShowUserList(Self, clock), on_MaximizePane(Self)}
    \cup {on_SplitPane(Self, clock, a) : a \in Axes}
    \cup UNION {on_Open(Self, clock, k) : k \in Kinds}
    \cup {on_Replace(Self, clock, k, p) : k \in Kinds, p \in MenuIds}
    \cup {on_Close(Self, clock, p) : p \in MenuIds}
    \cup {on_Swap(Self, clock, f, t) : f \in MenuIds, t \in MenuIds}

MutationRestartsWindow ==
    \A d \in Outcomes :
        (d.panes.panes # panes.panes \/ d.panes.layout # panes.layout)
            => d.last_changed = Some(clock)

TickRule ==
    Acted("Tick") =>
        IF last_changed # None /\ tick[1] - last_changed[1] >= 3
        THEN saves' = saves + 1 /\ last_changed' = None /\ <<"save">> \in last'.cmd
        ELSE saves' = saves /\ last_changed' = last_changed /\ <<"save">> \notin last'.cmd

\* C2: a Tick dispatches a save exactly when the marker is Dirty and the tick
\* is at least 3 s after the marker's time, and clears the marker with it, so
\* no later tick saves again; every message that changes the layout sets the
\* marker to the current time, restarting the 3 s.
C2_DebouncedSave == []MutationRestartsWindow /\ [][TickRule]_vars

\* A tick at t = 5 s has just dispatched the first save.
C2_Witness ==
    /\ last.op = "Tick"
    /\ <<"save">> \in last.cmd
    /\ clock = 5
    /\ saves = 1

InFlight == saves + Cardinality({i \in DOMAIN tasks : tasks[i].pc = "save"})

\* C3: after CloseRequested with a Dirty marker no save is issued while
\* history.close() is pending, exactly one has been issued once it completed,
\* and the window closes only after that save has finished.
C3_OneSaveAfterHistoryClose ==
    \A i \in DOMAIN tasks :
        tasks[i].dirty =>
            /\ tasks[i].pc = "history" => tasks[i].issued = 0
            /\ tasks[i].pc \in {"save", "done", "closed"} => tasks[i].issued = 1
            /\ closed => tasks[i].pc # "save"

\* C4: at most one layout save is in flight at any moment.
C4_OneSaveInFlight == InFlight <= 1

\* C5: the panes that have state are exactly the leaves of the layout, and no
\* id is in two leaves.
C5_PaneIdsInExactlyOneLeaf ==
    /\ LeafIds = DOMAIN panes.panes
    /\ Cardinality(LeafIds) = NumLeaves

\* C6: a DashboardSaved result changes nothing of the dashboard and dispatches
\* no save; the marker is cleared by the Tick that dispatches the save, and a
\* Tick that finds the marker Clean dispatches nothing.
C6_SavedChangesNothing ==
    [][/\ Acted("DashboardSaved") =>
            /\ panes' = panes /\ focus' = focus /\ last_changed' = last_changed
            /\ saves' = saves - 1 /\ tasks' = tasks /\ <<"save">> \notin last'.cmd
       /\ (Acted("Tick") /\ saves' > saves) => (last_changed # None /\ last_changed' = None)
       /\ (Acted("Tick") /\ last_changed = None) => saves' = saves]_vars

\* A save finished while the marker was Dirty again, and the marker stayed.
C6_Witness ==
    /\ last.op = "DashboardSaved"
    /\ last_changed # None
    /\ saves = 0

\* What close returns for the pane: the sibling, or nothing.
Sibling(p) == LET c == close(panes, p) IN IF c.ret = None THEN None ELSE Some(c.ret[1][2])

\* C7 as stated: after closing the focused pane, by ClosePane or side-menu
\* Close, focus is the sibling close returned, or none if it returned nothing.
C7_FocusSiblingOrNone ==
    [][\A p \in MenuIds :
         (/\ focus = Some(p)
          /\ \/ Handled("ClosePane", on_ClosePane(Self, clock))
             \/ Handled("Close", on_Close(Self, clock, p)))
         => focus' = Sibling(p)]_vars

\* C7 amended: ClosePane moves focus to the sibling close returned and leaves
\* focus where it was if close returned nothing; side-menu Close of the
\* focused pane clears focus whether or not there is a sibling.
C7_FocusAfterClose ==
    \A p \in MenuIds :
        focus = Some(p) =>
            /\ on_ClosePane(Self, clock).focus = IF Sibling(p) # None THEN Sibling(p) ELSE focus
            /\ on_Close(Self, clock, p).focus = None

\* ClosePane removed the focused pane and focus went to the sibling.
C7_Witness ==
    /\ last.op = "ClosePane"
    /\ focus # None
    /\ last.cmd = {<<"focus", focus[1]>>}
    /\ NumLeaves = 1

\* C8: Open(kind) with a pane already showing the kind leaves the grid and the
\* marker as they were and focuses a pane showing it.
C8_OpenShownOnlyFocuses ==
    \A kind \in Kinds : \A d \in on_Open(Self, clock, kind) :
        Showing(kind) # {} =>
            /\ d.panes = panes
            /\ d.last_changed = last_changed
            /\ d.focus \in {Some(id) : id \in Showing(kind)}

\* Two panes, one showing a kind and one empty: Open focused the former and
\* the marker is still Clean.
C8_Witness ==
    /\ last.op = "Open"
    /\ last_changed = None
    /\ NumLeaves = 2
    /\ \E a \in DOMAIN panes.panes, b \in DOMAIN panes.panes :
          /\ panes.panes[a].buffer \in Kinds
          /\ panes.panes[b].buffer = Empty
          /\ focus = Some(a)

\* C9: Open(kind) on a tree of one empty leaf, with no pane showing the kind,
\* keeps the one leaf and its id, gives it the kind, focuses it and sets the marker.
C9_OpenFillsSoleEmptyLeaf ==
    [][\A kind \in Kinds : \A d \in on_Open(Self, clock, kind) : \A p \in DOMAIN panes.panes :
         (/\ Leaves(panes.layout) = <<p>>
          /\ panes.panes[p].buffer = Empty
          /\ Showing(kind) = {}
          /\ Handled("Open", d))
         => /\ Leaves(panes'.layout) = <<p>>
            /\ p \in DOMAIN panes'.panes
            /\ panes'.panes[p].buffer = kind
            /\ focus' = Some(p)
            /\ last_changed' = Some(clock)]_vars

\* Displayed resources
Visible == {resource(panes.panes[p])[1] : p \in {q \in DOMAIN panes.panes : resource(panes.panes[q]) # None}}

C11_ShutdownCompletes == (tasks # <<>>) ~> closed

\* The window closed after the task's save had failed.
C11_Witness ==
    /\ closed
    /\ \E i \in DOMAIN tasks : tasks[i].pc = "closed" /\ tasks[i].saved = "Err"

\* Ids the interface still holds that are no longer leaves of the layout.
StaleIds == Range(focus) \ LeafIds

\* What a message naming the stale id p can lead to.
StaleOutcomes(p) ==
    {on_PaneClicked(Self, p), on_Close(Self, clock, p),
     on_ClosePane(Self, clock)}
    \cup {on_Replace(Self, clock, k, p) : k \in Kinds}
    \cup {on_Swap(Self, clock, p, q) : q \in DOMAIN panes.panes}
    \cup {on_Swap(Self, clock, q, p) : q \in DOMAIN panes.panes}
    \cup {on_PaneDragged(Self, clock, p, t, r) : t \in GridIds, r \in Regions}
    \cup {on_PaneDragged(Self, clock, t, p, r) : t \in GridIds, r \in Regions}
    \cup {on_SplitPane(Self, clock, a) : a \in Axes}
    \cup UNION {on_Open(Self, clock, k) :
                  k \in {x \in Kinds : /\ Showing(x) = {}
                                       /\ ~(\E q \in DOMAIN panes.panes :
                                              /\ DOMAIN panes.panes = {q}
                                              /\ panes.panes[q].buffer = Empty)}}

\* C12: a message that names a pane id which is not in the tree leaves the
\* grid, the focus and the marker as they were.
C12_StaleEventsIgnored ==
    \A p \in StaleIds : \A d \in StaleOutcomes(p) :
        /\ d.panes = panes
        /\ d.focus = focus
        /\ d.last_changed = last_changed

\* The tree without its ids: the nesting, axis and ratio of the splits and
\* the buffer descriptor of each leaf, none for a leaf that shows no buffer.
RECURSIVE Shape(_, _)
Shape(st, node) ==
    IF node.kind = "Split"
    THEN [axis |-> node.axis, ratio |-> node.ratio, a |-> Shape(st, node.a), b |-> Shape(st, node.b)]
    ELSE [buffer |-> IF Has(st, node.id) THEN data(st.panes[node.id].buffer) ELSE None]

\* C13: the dashboard restored from the snapshot of the current one has the
\* same tree up to pane ids, no focus and a Clean marker.
C13_RoundTrip ==
    LET restored == from_data(to_data(Self))
    IN  /\ Shape(restored.panes, restored.panes.layout) = Shape(panes, panes.layout)
        /\ restored.focus = None
        /\ restored.last_changed = None

\* A pane showing #x was split and the new empty pane is its child b.
C13_Witness ==
    /\ last.op = "SplitPane"
    /\ to_data(Self) = DataSplit("Horizontal", DefaultRatio, DataBuffer("#x", NewBuffer), DataEmpty)

\* C14 as stated: with one leaf in the tree, ClosePane with that leaf focused
\* and side-menu Close of that leaf leave the layout and the focus as they were.
C14_SoleCloseKeepsFocus ==
    \A p \in DOMAIN panes.panes :
        Leaves(panes.layout) = <<p>> =>
            /\ focus = Some(p) =>
                  /\ on_ClosePane(Self, clock).focus = focus
                  /\ on_ClosePane(Self, clock).panes.layout = panes.layout
            /\ on_Close(Self, clock, p).focus = focus
            /\ on_Close(Self, clock, p).panes.layout = panes.layout

\* C14 amended: both leave the layout as it was; ClosePane leaves the focus
\* as it was, side-menu Close clears the focus if it was on that leaf.
C14_SoleCloseFocus ==
    \A p \in DOMAIN panes.panes :
        Leaves(panes.layout) = <<p>> =>
            /\ focus = Some(p) =>
                  /\ on_ClosePane(Self, clock).focus = focus
                  /\ on_ClosePane(Self, clock).panes.layout = panes.layout
            /\ on_Close(Self, clock, p).focus = IF focus = Some(p) THEN None ELSE focus
            /\ on_Close(Self, clock, p).panes.layout = panes.layout

\* ClosePane has emptied the sole leaf, which showed #x, and it is still focused.
C14_Witness ==
    /\ last.op = "ClosePane"
    /\ tracked = {"#x"}
    /\ \E p \in DOMAIN panes.panes :
          /\ Leaves(panes.layout) = <<p>>
          /\ focus = Some(p)
          /\ panes.panes[p].buffer = Empty

\* The tree is one leaf and that leaf is empty.
SoleEmptyLeaf ==
    /\ NumLeaves = 1
    /\ \A p \in LeafIds : p \in DOMAIN panes.panes /\ panes.panes[p].buffer = Empty

\* The pane created last: ids grow with every pane made.
Newest == CHOOSE p \in DOMAIN panes.panes : \A q \in DOMAIN panes.panes : q <= p

\* C15: Open(kind), with no pane showing the kind and the tree not a single
\* empty leaf, splits the focused pane, or the newest pane if none is focused,
\* horizontally: one pane more, the new leaf is child b and shows the kind, the
\* split pane keeps id and content, the new leaf is focused, the marker is set.
C15_OpenSplits ==
    \A kind \in Kinds : \A d \in on_Open(Self, clock, kind) :
        (Showing(kind) = {} /\ ~SoleEmptyLeaf) =>
            LET target == IF focus # None THEN focus[1] ELSE Newest
                new == panes.last_id + 1
            IN  /\ DOMAIN d.panes.panes = DOMAIN panes.panes \cup {new}
                /\ new \notin DOMAIN panes.panes
                /\ d.panes.panes[new].buffer = kind
                /\ \A q \in DOMAIN panes.panes : d.panes.panes[q] = panes.panes[q]
                /\ d.panes.layout =
                      node_split(panes.layout, target, panes.last_id + 2, "Horizontal", new)
                /\ d.panes.layout # panes.layout
                /\ d.focus = Some(new)
                /\ d.last_changed = Some(clock)

\* All nodes of a tree, and the id, axis and ratio of each of its splits.
RECURSIVE SubNodes(_)
SubNodes(n) == IF n.kind = "Pane" THEN {n} ELSE {n} \cup SubNodes(n.a) \cup SubNodes(n.b)

SplitInfo(n) == {<<m.id, m.axis, m.ratio>> : m \in {x \in SubNodes(n) : x.kind = "Split"}}

\* The leaves of the tree with the leaf p followed by a new leaf.
LeavesWith(p, new) ==
    LET l == Leaves(panes.layout)
        i == CHOOSE j \in 1..Len(l) : l[j] = p
    IN  SubSeq(l, 1, i) \o <<new>> \o SubSeq(l, i + 1, Len(l))

\* C16: SplitPane(axis) with a focused pane of the tree makes that pane child a
\* of a new split of that axis and default ratio whose child b is one new
\* empty pane, focuses the new pane and sets the marker; without focus it
\* changes nothing.  A resize changes the ratio of its split only and sets
\* the marker.
C16_SplitAndResize ==
    /\ \A axis \in Axes :
          LET d == on_SplitPane(Self, clock, axis)
              new == panes.last_id + 1
          IN  /\ focus = None =>
                    d.panes = panes /\ d.focus = focus /\ d.last_changed = last_changed
              /\ \A p \in GridIds :
                    focus = Some(p) =>
                        /\ new \notin DOMAIN panes.panes
                        /\ DOMAIN d.panes.panes = DOMAIN panes.panes \cup {new}
                        /\ d.panes.panes[new].buffer = Empty
                        /\ \A q \in DOMAIN panes.panes : d.panes.panes[q] = panes.panes[q]
                        /\ Leaves(d.panes.layout) = LeavesWith(p, new)
                        /\ \E n \in SubNodes(d.panes.layout) :
                              /\ n.kind = "Split" /\ n.axis = axis /\ n.ratio = DefaultRatio
                              /\ n.a = PaneNode(p) /\ n.b = PaneNode(new)
                              /\ SplitInfo(d.panes.layout) =
                                    SplitInfo(panes.layout) \cup {<<n.id, axis, DefaultRatio>>}
                        /\ d.focus = Some(new)
                        /\ d.last_changed = Some(clock)
    /\ \A sp \in Splits(panes.layout), ratio \in Ratios :
          LET d == on_PaneResized(Self, clock, sp, ratio)
          IN  /\ d.panes.panes = panes.panes
              /\ Leaves(d.panes.layout) = Leaves(panes.layout)
              /\ SplitInfo(d.panes.layout) =
                    {<<i[1], i[2], IF i[1] = sp THEN ratio ELSE i[3]>> : i \in SplitInfo(panes.layout)}
              /\ d.focus = focus
              /\ d.last_changed = Some(clock)

\* A pane showing #y was split vertically: the new empty pane is focused and
\* sits beside it under a split of the default ratio.
C16_Witness ==
    /\ last.op = "SplitPane"
    /\ \E n \in SubNodes(panes.layout) :
          /\ n.kind = "Split" /\ n.axis = "Vertical" /\ n.ratio = DefaultRatio
          /\ n.a.kind = "Pane" /\ n.b.kind = "Pane"
          /\ focus = Some(n.b.id)
          /\ panes.panes[n.b.id].buffer = Empty
          /\ panes.panes[n.a.id].buffer = "#y"
    /\ last_changed = Some(clock)

\* C17: Replace(kind, p) on a pane p, and Open(kind) when p is the only pane
\* and empty, give p the kind and change nothing else: p keeps its settings,
\* the layout and the other panes stay, and p is focused.
C17_ReplaceInPlace ==
    [][\A kind \in Kinds : \A p \in DOMAIN panes.panes :
         (\/ Handled("Replace", on_Replace(Self, clock, kind, p))
          \/ /\ DOMAIN panes.panes = {p}
             /\ panes.panes[p].buffer = Empty
             /\ \E d \in on_Open(Self, clock, kind) : Handled("Open", d))
         => /\ panes'.layout = panes.layout
            /\ DOMAIN panes'.panes = DOMAIN panes.panes
            /\ panes'.panes[p].buffer = kind
            /\ panes'.panes[p].settings = panes.panes[p].settings
            /\ \A q \in DOMAIN panes.panes \ {p} : panes'.panes[q] = panes.panes[q]
            /\ focus' = Some(p)]_vars

\* C18: the focus is none or the id of a leaf of the layout.
C18_FocusIsALeaf == focus = None \/ focus[1] \in LeafIds

\* C19: a message that moves the focus to another pane that exists returns
\* the focus effect for that pane, and one that leaves the focus where it
\* was returns no focus effect.
C19_FocusEffect ==
    [][\A op \in {"PaneClicked", "SplitPane", "ClosePane", "Replace", "Swap", "Open"} :
         Acted(op) =>
            /\ (focus' # focus /\ focus' # None /\ Has(panes', focus'[1]))
                  => <<"focus", focus'[1]>> \in last'.cmd
            /\ focus' = focus => last'.cmd = {}]_vars

\* The snapshot carried by the save that the latest step dispatched, if any.
Dispatched(cmd) == {c[2] : c \in {x \in cmd : x[1] = "snapshot"}}

\* Whatever a pane or side-menu message does here, if it changes what a
\* snapshot would hold it sets the marker.
ChangeSetsMarker ==
    \A d \in Outcomes : to_data(d) # to_data(Self) => d.last_changed = Some(clock)

MarkerStep ==
    /\ to_data([panes |-> panes']) # to_data(Self) => last_changed' # None
    /\ (last_changed # None /\ last_changed' = None) =>
         /\ Acted("Tick")
         /\ Dispatched(last'.cmd) = {to_data([panes |-> panes'])}
    /\ (Acted("Tick") /\ <<"save">> \in last'.cmd) =>
         /\ last_changed' = None
         /\ Dispatched(last'.cmd) = {to_data(Self)}

\* C20: a step that changes what a snapshot of the dashboard would hold
\* leaves the marker set, and the marker is cleared only by a Tick whose save
\* carries the snapshot of the dashboard as it then is; so while the marker is
\* Clean the dashboard is as last saved by a Tick, or as created or restored.
C20_CleanMeansSaved == []ChangeSetsMarker /\ [][MarkerStep]_vars

\* A Tick has just saved the workspace whose only pane was given #y.
C20_Witness ==
    /\ last.op = "Tick"
    /\ Dispatched(last.cmd) = {DataBuffer("#y", NewBuffer)}
    /\ last_changed = None
    /\ to_data(Self) = DataBuffer("#y", NewBuffer)

\* C21: when window::close() is emitted, the dashboard as it then is has been
\* handed to a save: either the marker is Clean, so nothing changed since the
\* latest Tick save, or a shutdown task has saved a snapshot equal to it.
C21_DurableAtExit ==
    closed =>
        \/ last_changed = None
        \/ \E i \in DOMAIN tasks :
              /\ tasks[i].dirty
              /\ tasks[i].pc \in {"done", "closed"}
              /\ tasks[i].dashboard = to_data(Self)

====
